---- MODULE Spec2Model ----
(***************************************************************************)
(* A model of src/nc_tools.py: sort_river_nodes and create_subset_nc.      *)
(*                                                                         *)
(* One run of create_subset_nc is a sequential state machine; pc is the    *)
(* position in the function body.  Python sequences are 0-based; the       *)
(* model stores them as TLA+ sequences and reads them through At.          *)
(* Coordinates are whole degrees, file values are integers.                *)
(***************************************************************************)
EXTENDS Integers, Sequences, FiniteSets, TLC

VARIABLES
    nc_file,          \* the source dataset: variables present, coordinates, sizes
    river_file,       \* the river CSV: columns present, rows in file order
    sort_LonLat,      \* the axis selector argument
    time_steps_arg,   \* the time_steps argument: [given, list] (given = FALSE: None)
    save_frequency,   \* the stride argument
    output_before,    \* what was at the output path when the call began
    pc,               \* position in create_subset_nc
    error,            \* [type, at]: the exception that ended the call, if any
    river_001,        \* sort_river_nodes: the table after sort_values
    d1,               \* sort_river_nodes: the distance list
    rr,               \* sort_river_nodes: the distance loop's index
    river_nodes_idx,  \* the nearest grid index of each river node so far
    time_steps,       \* the selected time steps (after lines 86-89)
    new_dataset,      \* the destination handle: "unopened", "open", "closed"
    output_file,      \* the content at the output path
    i,                \* the slice loop's index
    stdout            \* the lines printed

vars == << nc_file, river_file, sort_LonLat, time_steps_arg, save_frequency,
           output_before, pc, error, river_001, d1, rr, river_nodes_idx,
           time_steps, new_dataset, output_file, i, stdout >>

inputs == << nc_file, river_file, sort_LonLat, time_steps_arg, save_frequency,
             output_before >>

(***************************************************************************)
(* Bounds of the model.                                                    *)
(***************************************************************************)
MaxNodes == 3       \* rows of the river table, node-ordering runs
MaxGrid == 2        \* grid nodes, nearest-index runs
MaxQueries == 2     \* rows of the river table, nearest-index runs
MaxTime == 3        \* time steps of the source, time-selection runs
MaxExplicit == 2    \* length of an explicit time_steps list
MaxStride == 2      \* largest save_frequency
MaxLevel == 2       \* levels of the source, writer runs

(***************************************************************************)
(* Sequences, Python style.                                                *)
(***************************************************************************)
At(s, k) == s[k + 1]

Abs(x) == IF x < 0 THEN -x ELSE x

SeqsUpTo(S, n) == UNION { [1..m -> S] : m \in 0..n }

Bijections(n) == { f \in [1..n -> 1..n] : \A a, b \in 1..n : f[a] = f[b] => a = b }

(***************************************************************************)
(* The coordinate lattice of the runs and the tables drawn from it.        *)
(***************************************************************************)
Lons == 0..2
Lats == 0..1
Points == [Lat : Lats, Lon : Lons]

\* The rows of a CSV whose k-th row is the point ps[k]; Node is the row's label.
RowsOf(ps) == [k \in 1..Len(ps) |-> [Node |-> k, Lat |-> ps[k].Lat, Lon |-> ps[k].Lon]]

AllColumns == {"Node", "Lat", "Lon"}

CoordVars == {"longitude", "latitude", "level", "total_depth", "time"}

AllVars == CoordVars \cup {"salinity", "temperature"}

\* A source dataset with the grid points g, nl levels and nt time steps.
Source(present, g, nl, nt) ==
    [vars |-> present,
     longitude |-> [k \in 1..Len(g) |-> g[k].Lon],
     latitude |-> [k \in 1..Len(g) |-> g[k].Lat],
     nlevel |-> nl,
     ntime |-> nt]

(***************************************************************************)
(* The values the source dataset holds (0-based positions).  Every         *)
(* position holds a different value, and most are not representable in     *)
(* single precision.                                                       *)
(***************************************************************************)
SrcTime(t) == 100 + 7 * t
SrcLevel(l) == 3 + 10 * l
SrcDepth(n) == 501 + 10 * n
SrcSalinity(t, n, l) == 10001 + 1000 * t + 100 * n + 10 * l
SrcTemperature(t, n, l) == 50003 + 1000 * t + 100 * n + 10 * l

\* .astype(np.float32) and a store into a float32 variable: the value is rounded
\* to the nearest single-precision number (here the multiples of 4).
Float32(v) == ((v + 2) \div 4) * 4

\* A store into a float64 variable keeps a double as it is.
Float64(v) == v

(***************************************************************************)
(* sort_river_nodes                                                        *)
(***************************************************************************)
\* A variant that sorts by the other column.
SortColumnSwapped(axis) == IF axis = 0 THEN "Lat" ELSE "Lon"

\* The column sort_values sorts by (lines 30-33); the selector is 0 or 1 here.
SortColumn(axis) == IF axis = 0 THEN "Lon" ELSE "Lat"

\* The value of a row in a column.
Cell(row, col) == IF col = "Lon" THEN row.Lon ELSE IF col = "Lat" THEN row.Lat ELSE row.Node

\* DataFrame.sort_values(by=col) with its default kind, 'quicksort': ascending,
\* and NOT stable, so rows with equal keys come out in an order the numpy build
\* picks.  The set of the tables it can return.
SortValues(rows, col) ==
    { s \in { [k \in 1..Len(rows) |-> rows[f[k]]] : f \in Bijections(Len(rows)) } :
        \A k \in 1..(Len(rows) - 1) : Cell(s[k], col) <= Cell(s[k + 1], col) }
\* A variant without the else branch of line 34: any other selector sorts by
\* latitude.
SortErrorNoSelector(cols, axis) ==
    IF SortColumn(axis) \notin cols THEN "KeyError"
    ELSE IF ~({"Lat", "Lon", "Node"} \subseteq cols) THEN "KeyError"
    ELSE "none"

\* The exception sort_river_nodes raises before its distance loop, or "none":
\* the selector test of lines 30-35, with the KeyError of sort_values on a
\* missing column, then the KeyError of the column reads of lines 37-39.
SortError(cols, axis) ==
    IF axis \notin {0, 1} THEN "ValueError"
    ELSE IF SortColumn(axis) \notin cols THEN "KeyError"
    ELSE IF ~({"Lat", "Lon", "Node"} \subseteq cols) THEN "KeyError"
    ELSE "none"

\* geopy's geodesic(p, q).meters for p, q = (lat, lon).  The library is not
\* part of the repository: it is abstracted as a metric on the lattice that is
\* symmetric, zero only between equal points, and weighs the two coordinates
\* differently.
geodesic(p, q) == 110574 * Abs(p[1] - q[1]) + 111320 * Abs(p[2] - q[2])

\* A variant that writes the distance into the slot of the later node.
DistanceSlotLater(r) == r

\* The slot of d1 that iteration rr of the distance loop writes (line 45).
DistanceSlot(r) == r - 1

\* The first value of rr, and the loop's test: range(len - 1, 0, -1) (line 42).
DistanceStart(n) == n - 1

DistanceContinues(r) == r > 0

(***************************************************************************)
(* The nearest-index loop of create_subset_nc (lines 80-84)                *)
(***************************************************************************)
\* np.sqrt on the squared distances of the lattice, to two decimal digits; it
\* is strictly increasing there, as the double-precision square root is.
Sqrt(x) == CHOOSE r \in 0..(10 * x + 1) : r * r <= 100 * x /\ 100 * x < (r + 1) * (r + 1)

\* Line 82: the planar distance of every grid node to (lon, lat).
Distances(longitude, latitude, lon, lat) ==
    [k \in 1..Len(longitude) |->
        Sqrt((longitude[k] - lon) * (longitude[k] - lon)
             + (latitude[k] - lat) * (latitude[k] - lat))]

\* np.argmin: one pass that keeps the first smallest element; 0-based result.
RECURSIVE ArgMinFrom(_, _, _)
ArgMinFrom(ds, k, best) ==
    IF k > Len(ds) THEN best
    ELSE ArgMinFrom(ds, k + 1, IF ds[k] < ds[best] THEN k ELSE best)
\* A variant of the pass that keeps the last smallest element.
RECURSIVE ArgMinLastFrom(_, _, _)
ArgMinLastFrom(ds, k, best) ==
    IF k > Len(ds) THEN best
    ELSE ArgMinLastFrom(ds, k + 1, IF ds[k] <= ds[best] THEN k ELSE best)

ArgMinLast(ds) == ArgMinLastFrom(ds, 2, 1) - 1

ArgMin(ds) == ArgMinFrom(ds, 2, 1) - 1

\* Lines 82-84 for one river node; unravel_index of a flat grid is the index.
NearestIndex(longitude, latitude, lon, lat) ==
    ArgMin(Distances(longitude, latitude, lon, lat))

(***************************************************************************)
(* The time-step selection of create_subset_nc (lines 86-89)               *)
(***************************************************************************)
\* ceil(a / b) for b # 0.
CeilDiv(a, b) == IF b > 0 THEN -((-a) \div b) ELSE -(a \div (-b))
\* A variant whose stop is inclusive.
ArangeInclusive(stop, step) ==
    LET n == IF CeilDiv(stop + 1, step) > 0 THEN CeilDiv(stop + 1, step) ELSE 0
    IN  [k \in 1..n |-> (k - 1) * step]

\* np.arange(0, stop, step), step # 0.
Arange(stop, step) ==
    LET n == IF CeilDiv(stop, step) > 0 THEN CeilDiv(stop, step) ELSE 0
    IN  [k \in 1..n |-> (k - 1) * step]

\* s[::step], step # 0: from the front for a positive step, from the back for
\* a negative one.
Slice(s, step) ==
    IF step > 0
    THEN [k \in 1..CeilDiv(Len(s), step) |-> At(s, (k - 1) * step)]
    ELSE [k \in 1..CeilDiv(Len(s), -step) |-> At(s, Len(s) - 1 + (k - 1) * step)]

\* The step for which np.arange and the slice raise.
StepRaises(step) == step = 0

\* Lines 86-89.
SelectTimeSteps(ntime, arg, step) ==
    IF arg.given THEN Slice(arg.list, step) ELSE Arange(ntime, step)

(***************************************************************************)
(* The destination dataset                                                 *)
(***************************************************************************)
\* What a createVariable leaves in every cell until it is written.
FillValue == 99999996

\* The path's content before the dataset is created: kind is "absent" or "old".
NoDataset(kind) ==
    [kind |-> kind, dims |-> [node |-> 0, level |-> 0, time |-> 0], variables |-> {},
     time_units |-> "", longitude |-> << >>, latitude |-> << >>, level |-> << >>,
     total_depth |-> << >>, time |-> << >>, salinity |-> << >>, temperature |-> << >>]

Filled(n) == [k \in 1..n |-> FillValue]

\* nc.Dataset(output_file, 'w', format='NETCDF4'): a new, empty dataset, whatever
\* was at the path (line 91).
Created == NoDataset("netcdf4")

\* Lines 92-108: the dimensions, the variables (every cell the fill value) and the
\* units.
Declared(f, nnode, nlevel, ntime) ==
    [f EXCEPT !.dims = [node |-> nnode, level |-> nlevel, time |-> ntime],
              !.variables = {"longitude", "latitude", "level", "total_depth", "time",
                             "salinity", "temperature"},
              !.time_units = "source units",
              !.longitude = Filled(nnode),
              !.latitude = Filled(nnode),
              !.level = Filled(nlevel),
              !.total_depth = Filled(nnode),
              !.time = Filled(ntime),
              !.salinity = [t \in 1..ntime |-> [n \in 1..nnode |-> Filled(nlevel)]],
              !.temperature = [t \in 1..ntime |-> [n \in 1..nnode |-> Filled(nlevel)]]]

\* Lines 110-113: the per-node variables through the index list, the levels in full.
WithNodeVariables(f, src, idx) ==
    [f EXCEPT !.longitude = [k \in 1..Len(idx) |-> Float64(At(src.longitude, idx[k]))],
              !.latitude = [k \in 1..Len(idx) |-> Float64(At(src.latitude, idx[k]))],
              !.level = [l \in 1..src.nlevel |-> Float32(SrcLevel(l - 1))],
              !.total_depth = [k \in 1..Len(idx) |-> Float32(SrcDepth(idx[k]))]]

\* time[time_steps] raises IndexError when a step is no index of time (line 114).
TimeIndexError(ntime, steps) == \E k \in 1..Len(steps) : steps[k] >= ntime

\* Line 114.
WithTime(f, steps) == [f EXCEPT !.time = [k \in 1..Len(steps) |-> Float64(SrcTime(steps[k]))]]
\* A variant that reads output node slot j from grid node j, not through the list.
SliceNodeSlot(idx, j) == j - 1

\* The node that output node slot j of a slice is read from (lines 117-118).
SliceNode(idx, j) == idx[j]

\* Line 117: salinity[t, river_nodes_idx, :] into output time slot slot (0-based).
WithSalinity(f, slot, t, idx, nlevel) ==
    [f EXCEPT !.salinity[slot + 1] =
        [j \in 1..Len(idx) |-> [l \in 1..nlevel |->
            Float32(SrcSalinity(t, SliceNode(idx, j), l - 1))]]]

\* Line 118.
WithTemperature(f, slot, t, idx, nlevel) ==
    [f EXCEPT !.temperature[slot + 1] =
        [j \in 1..Len(idx) |-> [l \in 1..nlevel |->
            Float32(SrcTemperature(t, SliceNode(idx, j), l - 1))]]]
\* A variant without the with statement: the handle stays as it is.
WithExitLeaves(handle) == handle

\* The with statement of line 91 closes the handle when its body ends, by its
\* last line or by an exception.
WithExit(handle) == "closed"

NoError == [type |-> "none", at |-> "none"]

Raise(type, at) == [type |-> type, at |-> at]

(***************************************************************************)
(* The steps of create_subset_nc                                           *)
(***************************************************************************)
\* Lines 69-74: the five coordinate variables are read; a missing one is a
\* KeyError.
ReadSource ==
    /\ pc = "read"
    /\ IF CoordVars \subseteq nc_file.vars
       THEN pc' = "sort" /\ error' = error
       ELSE pc' = "failed" /\ error' = Raise("KeyError", "read")
    /\ UNCHANGED << inputs, river_001, d1, rr, river_nodes_idx, time_steps,
                    new_dataset, output_file, i, stdout >>

\* Line 76, sort_river_nodes lines 29-41: the table is read and sorted, the
\* columns are taken, d1 is all zeros.
SortRiverNodes ==
    /\ pc = "sort"
    /\ IF SortError(river_file.cols, sort_LonLat) # "none"
       THEN /\ pc' = "failed"
            /\ error' = Raise(SortError(river_file.cols, sort_LonLat), "sort")
            /\ UNCHANGED << river_001, d1, rr >>
       ELSE /\ \E s \in SortValues(river_file.rows, SortColumn(sort_LonLat)) :
                 river_001' = s
            /\ d1' = [k \in 1..Len(river_file.rows) |-> 0]
            /\ rr' = DistanceStart(Len(river_file.rows))
            /\ pc' = "dist"
            /\ error' = error
    /\ UNCHANGED << inputs, river_nodes_idx, time_steps, new_dataset, output_file,
                    i, stdout >>

\* sort_river_nodes lines 42-45, one iteration; after the last one the frame is
\* built and returned (lines 47-54, 76-78).
DistanceLoop ==
    /\ pc = "dist"
    /\ IF DistanceContinues(rr)
       THEN /\ d1' = [d1 EXCEPT ![DistanceSlot(rr) + 1] =
                        geodesic(<< At(river_001, rr).Lat, At(river_001, rr).Lon >>,
                                 << At(river_001, rr - 1).Lat, At(river_001, rr - 1).Lon >>)]
            /\ rr' = rr - 1
            /\ pc' = pc
       ELSE /\ pc' = "resolve"
            /\ UNCHANGED << d1, rr >>
    /\ UNCHANGED << inputs, error, river_001, river_nodes_idx, time_steps,
                    new_dataset, output_file, i, stdout >>

\* Lines 80-84, one iteration: the next river node's nearest grid index is
\* appended.  np.argmin of an empty array is a ValueError.
ResolveIndex ==
    /\ pc = "resolve"
    /\ LET k == Len(river_nodes_idx) IN
       IF k >= Len(river_001)
       THEN pc' = "select" /\ UNCHANGED << error, river_nodes_idx >>
       ELSE IF Len(nc_file.longitude) = 0
       THEN /\ pc' = "failed"
            /\ error' = Raise("ValueError", "resolve")
            /\ UNCHANGED river_nodes_idx
       ELSE /\ river_nodes_idx' = Append(river_nodes_idx,
                    NearestIndex(nc_file.longitude, nc_file.latitude,
                                 At(river_001, k).Lon, At(river_001, k).Lat))
            /\ UNCHANGED << pc, error >>
    /\ UNCHANGED << inputs, river_001, d1, rr, time_steps, new_dataset,
                    output_file, i, stdout >>

\* Lines 86-89.  A zero step is a ZeroDivisionError of np.arange, a ValueError
\* of the slice.
SelectSteps ==
    /\ pc = "select"
    /\ IF StepRaises(save_frequency)
       THEN /\ pc' = "failed"
            /\ error' = Raise(IF time_steps_arg.given THEN "ValueError"
                              ELSE "ZeroDivisionError", "select")
            /\ UNCHANGED time_steps
       ELSE /\ time_steps' = SelectTimeSteps(nc_file.ntime, time_steps_arg, save_frequency)
            /\ pc' = "open"
            /\ error' = error
    /\ UNCHANGED << inputs, river_001, d1, rr, river_nodes_idx, new_dataset,
                    output_file, i, stdout >>

\* Line 91: the destination is created, or truncated, and opened.
OpenDestination ==
    /\ pc = "open"
    /\ new_dataset' = "open"
    /\ output_file' = Created
    /\ pc' = "declare"
    /\ UNCHANGED << inputs, error, river_001, d1, rr, river_nodes_idx, time_steps,
                    i, stdout >>

\* Lines 92-108.
Declare ==
    /\ pc = "declare"
    /\ output_file' = Declared(output_file, Len(river_nodes_idx), nc_file.nlevel,
                               Len(time_steps))
    /\ pc' = "coords"
    /\ UNCHANGED << inputs, error, river_001, d1, rr, river_nodes_idx, time_steps,
                    new_dataset, i, stdout >>

\* Lines 110-114.  An IndexError of line 114 leaves the with block, which closes
\* the handle; lines 110-113 are written by then.
CopyCoordinates ==
    /\ pc = "coords"
    /\ IF TimeIndexError(nc_file.ntime, time_steps)
       THEN /\ output_file' = WithNodeVariables(output_file, nc_file, river_nodes_idx)
            /\ new_dataset' = WithExit(new_dataset)
            /\ pc' = "failed"
            /\ error' = Raise("IndexError", "coords")
       ELSE /\ output_file' = WithTime(WithNodeVariables(output_file, nc_file,
                                                          river_nodes_idx), time_steps)
            /\ pc' = "copy"
            /\ UNCHANGED << new_dataset, error >>
    /\ i' = 0
    /\ UNCHANGED << inputs, river_001, d1, rr, river_nodes_idx, time_steps, stdout >>

\* Lines 116-118, one iteration; a missing salinity or temperature variable is a
\* KeyError that leaves the with block.  After the last iteration the block ends
\* and the handle is closed.
CopySlice ==
    /\ pc = "copy"
    /\ IF i >= Len(time_steps)
       THEN /\ new_dataset' = WithExit(new_dataset)
            /\ pc' = "print"
            /\ UNCHANGED << output_file, error, i >>
       ELSE IF "salinity" \notin nc_file.vars
       THEN /\ new_dataset' = WithExit(new_dataset)
            /\ pc' = "failed"
            /\ error' = Raise("KeyError", "copy")
            /\ UNCHANGED << output_file, i >>
       ELSE IF "temperature" \notin nc_file.vars
       THEN /\ output_file' = WithSalinity(output_file, i, At(time_steps, i),
                                           river_nodes_idx, nc_file.nlevel)
            /\ new_dataset' = WithExit(new_dataset)
            /\ pc' = "failed"
            /\ error' = Raise("KeyError", "copy")
            /\ i' = i
       ELSE /\ output_file' = WithTemperature(
                    WithSalinity(output_file, i, At(time_steps, i),
                                 river_nodes_idx, nc_file.nlevel),
                    i, At(time_steps, i), river_nodes_idx, nc_file.nlevel)
            /\ i' = i + 1
            /\ UNCHANGED << pc, error, new_dataset >>
    /\ UNCHANGED << inputs, river_001, d1, rr, river_nodes_idx, time_steps, stdout >>

\* Line 120.
Notify ==
    /\ pc = "print"
    /\ stdout' = Append(stdout, "Subset NetCDF file created")
    /\ pc' = "done"
    /\ UNCHANGED << inputs, error, river_001, d1, rr, river_nodes_idx, time_steps,
                    new_dataset, output_file, i >>

Next ==
    \/ ReadSource
    \/ SortRiverNodes
    \/ DistanceLoop
    \/ ResolveIndex
    \/ SelectSteps
    \/ OpenDestination
    \/ Declare
    \/ CopyCoordinates
    \/ CopySlice
    \/ Notify

(***************************************************************************)
(* The state when create_subset_nc is called                               *)
(***************************************************************************)
Locals ==
    /\ pc = "read"
    /\ error = NoError
    /\ river_001 = << >>
    /\ d1 = << >>
    /\ rr = 0
    /\ river_nodes_idx = << >>
    /\ time_steps = << >>
    /\ new_dataset = "unopened"
    /\ output_file = NoDataset(output_before)
    /\ i = 0
    /\ stdout = << >>

NoList == [given |-> FALSE, list |-> << >>]

List(s) == [given |-> TRUE, list |-> s]

Table(cols, ps) == [cols |-> cols, rows |-> RowsOf(ps)]

Pt(lat, lon) == [Lat |-> lat, Lon |-> lon]

\* Node-ordering runs: every table of up to MaxNodes rows, every selector, a
\* column missing or not.
InitOrder ==
    /\ nc_file = Source(AllVars, << Pt(0, 0), Pt(1, 2) >>, 1, 1)
    /\ river_file \in { Table(AllColumns \ drop, ps) :
                          drop \in {{}} \cup { {c} : c \in AllColumns },
                          ps \in SeqsUpTo(Points, MaxNodes) }
    /\ sort_LonLat \in 0..2
    /\ time_steps_arg = NoList
    /\ save_frequency = 1
    /\ output_before = "absent"
    /\ Locals

SpecOrder == InitOrder /\ [][Next]_vars

\* Nearest-index runs: every grid of up to MaxGrid nodes (the empty one too),
\* every table of up to MaxQueries rows, sorted west-east.
InitResolve ==
    /\ nc_file \in { Source(AllVars, g, 1, 1) : g \in SeqsUpTo(Points, MaxGrid) }
    /\ river_file \in { Table(AllColumns, ps) : ps \in SeqsUpTo(Points, MaxQueries) }
    /\ sort_LonLat = 0
    /\ time_steps_arg = NoList
    /\ save_frequency = 1
    /\ output_before = "absent"
    /\ Locals

SpecResolve == InitResolve /\ [][Next]_vars

\* Time-selection runs: every source length up to MaxTime, no list or any list
\* of up to MaxExplicit steps (a step may be past the source's end), every
\* stride from -MaxStride to MaxStride.
InitTime ==
    /\ nc_file \in { Source(AllVars, << Pt(0, 0), Pt(1, 2) >>, 1, nt) : nt \in 0..MaxTime }
    /\ river_file = Table(AllColumns, << Pt(1, 1) >>)
    /\ sort_LonLat = 0
    /\ time_steps_arg \in {NoList} \cup { List(l) : l \in SeqsUpTo(0..MaxTime, MaxExplicit) }
    /\ save_frequency \in (-MaxStride)..MaxStride
    /\ output_before = "absent"
    /\ Locals

SpecTime == InitTime /\ [][Next]_vars

\* Writer runs: grids in and out of order and with a repeated node; every table
\* of at most as many rows as the grid has nodes, over the grid's points and one
\* point off the grid; sources of 0 and 3 steps; no list, or a list that is
\* empty, in range, repeating, or past the end.
WriteGrids ==
    { << Pt(0, 0) >>,
      << Pt(0, 0), Pt(1, 1), Pt(0, 2) >>,
      << Pt(0, 2), Pt(0, 0), Pt(1, 1) >>,
      << Pt(1, 1), Pt(1, 1) >>,
      << Pt(1, 0), Pt(0, 0) >>,
      << Pt(0, 1), Pt(1, 1) >> }

WriteLists == { NoList, List(<< >>), List(<< 1 >>), List(<< 2, 0, 2 >>), List(<< 0, 3 >>) }

InitWrite ==
    /\ \E g \in WriteGrids, nl \in 1..MaxLevel, nt \in {0, 3} :
          /\ nc_file = Source(AllVars, g, nl, nt)
          /\ river_file \in { Table(AllColumns, ps) :
                ps \in SeqsUpTo({ g[k] : k \in 1..Len(g) } \cup {Pt(1, 2)}, Len(g)) }
    /\ sort_LonLat \in 0..1
    /\ time_steps_arg \in WriteLists
    /\ save_frequency \in 1..2
    /\ output_before = "old"
    /\ Locals

SpecWrite == InitWrite /\ [][Next]_vars

\* Runs with faults: a source variable or a table column missing, a selector
\* that is none, a zero stride, a step past the end, a destination that exists
\* or not.
Init ==
    /\ \E drop \in {{}} \cup { {v} : v \in AllVars }, nl \in 1..MaxLevel, nt \in {0, 2} :
          nc_file = Source(AllVars \ drop, << Pt(0, 0), Pt(1, 2) >>, nl, nt)
    /\ \E drop \in {{}} \cup { {c} : c \in AllColumns },
          ps \in { << >>, << Pt(1, 1), Pt(0, 0) >> } :
          river_file = Table(AllColumns \ drop, ps)
    /\ sort_LonLat \in 0..2
    /\ time_steps_arg \in { NoList, List(<< 1, 0 >>), List(<< 0, 2 >>) }
    /\ save_frequency \in 0..2
    /\ output_before \in {"absent", "old"}
    /\ Locals

Spec == Init /\ [][Next]_vars

(***************************************************************************)
(* Node ordering (SpecOrder)                                               *)
(***************************************************************************)
\* sort_river_nodes has sorted the table: the call is past line 33.
OrderTaken == pc \notin {"read", "sort"} /\ error.at \notin {"read", "sort"}

\* sort_river_nodes has returned.
OrderReturned == OrderTaken /\ pc # "dist"

\* The coordinate the selector names: longitude for 0, latitude for 1.
ChosenCoordinate(row) == IF sort_LonLat = 0 THEN row.Lon ELSE row.Lat

\* C1: for every table and selector 0 or 1, the sorted table is a permutation
\* of the input rows and is non-decreasing along the chosen coordinate
\* (longitude for 0, latitude for 1).
C1_SortedPermutation ==
    OrderTaken =>
        /\ Len(river_001) = Len(river_file.rows)
        /\ \A row \in { river_file.rows[k] : k \in 1..Len(river_file.rows) } :
              Cardinality({ k \in 1..Len(river_001) : river_001[k] = row }) = 1
        /\ \A k \in 1..(Len(river_001) - 1) :
              ChosenCoordinate(river_001[k]) <= ChosenCoordinate(river_001[k + 1])

\* A three-row table sorted north-south came out in another order than it went in.
C1_Witness ==
    /\ pc = "done"
    /\ sort_LonLat = 1
    /\ Len(river_001) = 3
    /\ river_001 # river_file.rows
    /\ river_001[1].Lat < river_001[3].Lat

\* C2: the sort is stable: of two rows with equal chosen coordinate, the one
\* that is first in the input (the smaller row label) is first in the output.
C2_StableSort ==
    OrderTaken =>
        \A a, b \in 1..Len(river_001) :
            (a < b /\ ChosenCoordinate(river_001[a]) = ChosenCoordinate(river_001[b]))
                => river_001[a].Node < river_001[b].Node

\* C3: for n >= 1 rows the distance list has n entries, entry k < n-1 is the
\* geodesic distance between sorted rows k and k+1, and entry n-1 is 0.
C3_Distances ==
    OrderReturned =>
        /\ Len(d1) = Len(river_001)
        /\ \A k \in 0..(Len(river_001) - 2) :
              At(d1, k) = geodesic(<< At(river_001, k).Lat, At(river_001, k).Lon >>,
                                   << At(river_001, k + 1).Lat, At(river_001, k + 1).Lon >>)
        /\ Len(river_001) >= 1 => At(d1, Len(river_001) - 1) = 0

\* Three rows, both distances positive and different.
C3_Witness ==
    /\ pc = "done"
    /\ Len(d1) = 3
    /\ d1[1] > 0
    /\ d1[2] > 0
    /\ d1[1] # d1[2]
    /\ d1[3] = 0

(***************************************************************************)
(* Nearest grid index (SpecResolve)                                        *)
(***************************************************************************)
\* The index loop has ended without an exception.
ResolveDone == pc \notin {"read", "sort", "dist", "resolve"}
               /\ error.at \notin {"read", "sort", "resolve"}

\* The squared planar distance of grid node g (0-based) to river node j (1-based).
PlanarSq(g, j) ==
    (At(nc_file.longitude, g) - river_001[j].Lon) * (At(nc_file.longitude, g) - river_001[j].Lon)
    + (At(nc_file.latitude, g) - river_001[j].Lat) * (At(nc_file.latitude, g) - river_001[j].Lat)

GridIndices == 0..(Len(nc_file.longitude) - 1)

\* C4: one grid index per river node, in the order of the sorted table and with
\* repeats kept; each is the smallest index among the grid nodes at minimal
\* planar distance from the river node.
C4_NearestFirst ==
    /\ ResolveDone => Len(river_nodes_idx) = Len(river_001)
    /\ \A j \in 1..Len(river_nodes_idx) :
          /\ river_nodes_idx[j] \in GridIndices
          /\ \A g \in GridIndices :
                /\ PlanarSq(river_nodes_idx[j], j) <= PlanarSq(g, j)
                /\ PlanarSq(g, j) = PlanarSq(river_nodes_idx[j], j) => river_nodes_idx[j] <= g

\* Two river nodes got the same index, and one of them had a later grid node
\* just as near.
C4_Witness ==
    /\ pc = "done"
    /\ Len(river_nodes_idx) = 2
    /\ river_nodes_idx[1] = river_nodes_idx[2]
    /\ river_001[1].Lon # river_001[2].Lon
    /\ \E g \in GridIndices :
          g > river_nodes_idx[1] /\ PlanarSq(g, 1) = PlanarSq(river_nodes_idx[1], 1)
                                 /\ PlanarSq(g, 1) > 0

(***************************************************************************)
(* Time-step selection (SpecTime)                                          *)
(***************************************************************************)
\* Lines 86-89 have run without an exception.
SelectDone == pc \notin {"read", "sort", "dist", "resolve", "select"}
              /\ error.at \notin {"read", "sort", "resolve", "select"}

\* The positions 0, stride, 2*stride, ... below n.
Multiples(n, stride) == { m \in 0..(n - 1) : m % stride = 0 }

\* C5: for a positive stride, without a list the selection is 0, stride,
\* 2*stride, ..., every multiple of stride below the source's length; with a
\* list it is the list's elements at positions 0, stride, 2*stride, ..., in
\* list order, repeats kept, values not compared with the source's length.
C5_Selection ==
    (SelectDone /\ save_frequency > 0) =>
        IF time_steps_arg.given
        THEN /\ Len(time_steps) = Cardinality(Multiples(Len(time_steps_arg.list), save_frequency))
             /\ \A k \in 0..(Len(time_steps) - 1) :
                   At(time_steps, k) = At(time_steps_arg.list, k * save_frequency)
        ELSE /\ Len(time_steps) = Cardinality(Multiples(nc_file.ntime, save_frequency))
             /\ \A k \in 0..(Len(time_steps) - 1) : At(time_steps, k) = k * save_frequency

\* Every second element of a two-element list was taken; the one taken is past
\* the source's end.
C5_Witness ==
    /\ SelectDone
    /\ time_steps_arg.given
    /\ save_frequency = 2
    /\ Len(time_steps_arg.list) = 2
    /\ Len(time_steps) = 1
    /\ time_steps[1] >= nc_file.ntime

\* C6: for a stride that is zero or negative the selection fails and no
\* selection is produced: the call never gets past lines 86-89.
C6_NonPositiveStrideFails ==
    save_frequency <= 0 => ~SelectDone

(***************************************************************************)
(* The writer (SpecWrite)                                                  *)
(***************************************************************************)
Success == pc \in {"print", "done"}

\* Output time slot slot (0-based) holds the slice of source step t through the
\* index list, in the destination's single precision.
SliceWritten(slot, t) ==
    /\ Len(output_file.salinity[slot + 1]) = Len(river_nodes_idx)
    /\ Len(output_file.temperature[slot + 1]) = Len(river_nodes_idx)
    /\ \A j \in 1..Len(river_nodes_idx) :
          /\ Len(output_file.salinity[slot + 1][j]) = nc_file.nlevel
          /\ Len(output_file.temperature[slot + 1][j]) = nc_file.nlevel
          /\ \A l \in 0..(nc_file.nlevel - 1) :
                /\ At(output_file.salinity[slot + 1][j], l) =
                      Float32(SrcSalinity(t, river_nodes_idx[j], l))
                /\ At(output_file.temperature[slot + 1][j], l) =
                      Float32(SrcTemperature(t, river_nodes_idx[j], l))

SliceUnwritten(slot) ==
    \A j \in 1..Len(river_nodes_idx) : \A l \in 1..nc_file.nlevel :
        /\ output_file.salinity[slot + 1][j][l] = FillValue
        /\ output_file.temperature[slot + 1][j][l] = FillValue

\* C7: with index list M and selection T, the destination has node dimension
\* len(M), the source's level count and time dimension len(T); salinity and
\* temperature at (slot, j, l) are the source's at (T[slot], M[j], l) and time at
\* slot is the source time at T[slot]; the slices are written one per selected
\* step in the order of T (while the loop is at i, the slots below i are
\* written and the others are not).
C7_SubsetContent ==
    /\ pc \in {"coords", "copy", "print", "done"} =>
          output_file.dims = [node |-> Len(river_nodes_idx), level |-> nc_file.nlevel,
                              time |-> Len(time_steps)]
    /\ pc \in {"copy", "print", "done"} =>
          /\ Len(output_file.time) = Len(time_steps)
          /\ Len(output_file.salinity) = Len(time_steps)
          /\ Len(output_file.temperature) = Len(time_steps)
          /\ \A slot \in 0..(Len(time_steps) - 1) :
                /\ At(output_file.time, slot) = SrcTime(At(time_steps, slot))
                /\ IF Success \/ slot < i
                   THEN SliceWritten(slot, At(time_steps, slot))
                   ELSE SliceUnwritten(slot)

\* A finished subset of three steps taken from a list, the second step earlier
\* in the source than the first and the third a repeat, through an index list
\* that is neither ascending nor free of repeats.
C7_Witness ==
    /\ pc = "done"
    /\ time_steps_arg.given
    /\ Len(time_steps) = 3
    /\ time_steps[1] > time_steps[2]
    /\ time_steps[1] = time_steps[3]
    /\ Len(river_nodes_idx) = 3
    /\ river_nodes_idx[1] > river_nodes_idx[2]
    /\ river_nodes_idx[2] = river_nodes_idx[3]
    /\ nc_file.nlevel = 2

\* The river table holds exactly the grid's nodes, in some order.
AllGridNodes ==
    /\ Len(river_file.rows) = Len(nc_file.longitude)
    /\ \E f \in Bijections(Len(river_file.rows)) :
          \A k \in 1..Len(river_file.rows) :
              /\ river_file.rows[k].Lon = nc_file.longitude[f[k]]
              /\ river_file.rows[k].Lat = nc_file.latitude[f[k]]

AllTimeSteps == ~time_steps_arg.given /\ save_frequency = 1

\* The destination holds the source's values position by position.
SamePositions ==
    /\ output_file.dims = [node |-> Len(nc_file.longitude), level |-> nc_file.nlevel,
                           time |-> nc_file.ntime]
    /\ \A t \in 0..(nc_file.ntime - 1) : \A n \in 0..(Len(nc_file.longitude) - 1) :
          \A l \in 0..(nc_file.nlevel - 1) :
              /\ At(At(At(output_file.salinity, t), n), l) = Float32(SrcSalinity(t, n, l))
              /\ At(At(At(output_file.temperature, t), n), l) = Float32(SrcTemperature(t, n, l))

\* C8 as stated: with all time steps and the river nodes being all the grid
\* nodes, the destination equals the source at every (time, node, level).
C8_RoundTrip ==
    (Success /\ AllTimeSteps /\ AllGridNodes) => SamePositions

\* The grid's nodes are stored in strictly increasing order of the chosen
\* coordinate.
GridAscending ==
    \A k \in 1..(Len(nc_file.longitude) - 1) :
        IF sort_LonLat = 0
        THEN nc_file.longitude[k] < nc_file.longitude[k + 1]
        ELSE nc_file.latitude[k] < nc_file.latitude[k + 1]

\* C8 as amended: with all time steps, the river nodes being all the grid
\* nodes, and the grid stored in strictly increasing order of the chosen
\* coordinate, the destination equals the source at every (time, node, level).
C8_RoundTripAscending ==
    (Success /\ AllTimeSteps /\ AllGridNodes /\ GridAscending) => SamePositions

\* A round trip of a three-node ascending grid, three steps, the table in
\* another order than the grid.
C8_Witness ==
    /\ pc = "done"
    /\ AllTimeSteps
    /\ AllGridNodes
    /\ GridAscending
    /\ Len(nc_file.longitude) = 3
    /\ nc_file.ntime = 3
    /\ river_file.rows[1].Lon # nc_file.longitude[1]

(***************************************************************************)
(* The destination handle and the failures (Spec)                          *)
(***************************************************************************)
\* C9: once opened, the destination handle is closed before the call returns
\* or raises: it is open only inside the with block, and after the block, by
\* its end or by an exception in it, it is closed.
C9_HandleClosed ==
    /\ new_dataset = "open" => pc \in {"declare", "coords", "copy"}
    /\ (pc \in {"print", "done", "failed"} /\ output_file.kind = "netcdf4") =>
          new_dataset = "closed"

\* The call raised inside the slice loop, the destination created, and the
\* handle is closed.
C9_Witness ==
    /\ pc = "failed"
    /\ error = Raise("KeyError", "copy")
    /\ output_file.kind = "netcdf4"
    /\ new_dataset = "closed"

\* The call's inputs hold one of: a selector that is neither 0 nor 1, a table
\* without one of its columns, a source without one of the five coordinate
\* variables, a zero stride.
EarlyFault ==
    \/ sort_LonLat \notin {0, 1}
    \/ ~(AllColumns \subseteq river_file.cols)
    \/ ~(CoordVars \subseteq nc_file.vars)
    \/ save_frequency = 0

\* C10: with such inputs the call fails before the destination is opened: the
\* path's content is what it was, nothing is printed, and the call never gets
\* to line 91.  A failure of the copy (a missing salinity or temperature
\* variable, a step past the end) comes after the destination was created.
C10_EarlyFailure ==
    /\ EarlyFault =>
          /\ pc \in {"read", "sort", "dist", "resolve", "select", "failed"}
          /\ new_dataset = "unopened"
          /\ output_file = NoDataset(output_before)
          /\ stdout = << >>
    /\ (pc = "failed" /\ error.at \in {"coords", "copy"}) =>
          /\ ~EarlyFault
          /\ output_file.kind = "netcdf4"
          /\ stdout = << >>

\* A zero stride ended the call at lines 86-89 with the old file in place.
C10_Witness ==
    /\ pc = "failed"
    /\ error.at = "select"
    /\ save_frequency = 0
    /\ output_before = "old"
    /\ output_file = NoDataset("old")
    /\ new_dataset = "unopened"

====
